---- MODULE Spec2Model ----
(***************************************************************************)
(* Model of the file-share server (server/main.go, the echo build and the  *)
(* earlier net/http build) and of the browser client (client/assets/       *)
(* index.js).  Handlers are operators over the files table; one action     *)
(* serves one request through the middleware chain and the router.         *)
(*                                                                         *)
(* Text (ids, file names, hex keys) is a sequence of one-character         *)
(* strings; binary data (keys, nonces) is a sequence of bytes 0..255.      *)
(* A byte count is a pair [mb, b] = mb * 2^20 + b with b < 2^20, because   *)
(* the 3 GB limit of the echo build does not fit a 32-bit integer.         *)
(***************************************************************************)
EXTENDS Integers, Sequences, FiniteSets, TLC

VARIABLES
    variant,    \* which build runs: "echo" (main.go 1-302) or "nethttp" (main.go 304-594)
    distIndex,  \* whether the embedded dist holds index.html (fixed at build time)
    files,      \* the files table: id -> [name, data]
    issued,     \* what successful uploads answered: {[id, key, name, payload]}
    req,        \* the request of the exchange being served
    resp,       \* the response written to it
    logLine,    \* the line the request logger wrote for it
    cpc,        \* client: position in uploadFileInChunks
    cfile,      \* client: the selected file [name, size]
    cidx,       \* client: chunkIndex of the for loop
    csent,      \* client: requests sent so far, in order, each with the status it
                \* was answered with (-1 not yet answered, 0 network error)
    fmtIn,      \* size handed to the size formatting
    fmtOut,     \* the formatted size
    gor         \* the goroutines serving requests concurrently: [pc, req, rnd, snap]

serverVars == <<variant, distIndex, files, issued, req, resp, logLine>>
clientVars == <<cpc, cfile, cidx, csent>>
fmtVars == <<fmtIn, fmtOut>>
concVars == <<gor>>
vars == <<variant, distIndex, files, issued, req, resp, logLine,
          cpc, cfile, cidx, csent, fmtIn, fmtOut, gor>>

----------------------------------------------------------------------------
(* Bounds of the model *)

NumIds == 2        \* values generateID can return
NumKeys == 2       \* values generateRandomKey can return
FormOverhead == 200 \* bytes of multipart framing around the file part

(* Program constants *)

keySize == 32
nonceSize == 12
gcmTagSize == 16
idBytes == 16

MiB == 1024 * 1024
CHUNK_SIZE == 100 * 1024 * 1024

----------------------------------------------------------------------------
(* Byte counts *)

Size(mb, b) == [mb |-> mb + (b \div MiB), b |-> b % MiB]
SizeOf(n) == Size(0, n)
SizeAdd(x, n) == Size(x.mb, x.b + n)
SizeLT(x, y) == x.mb < y.mb \/ (x.mb = y.mb /\ x.b < y.b)
SizeGT(x, y) == SizeLT(y, x)
SizeGE(x, y) == ~SizeLT(x, y)

maxUploadSize(v) == IF v = "echo" THEN Size(3 * 1024, 0) ELSE Size(10, 0)

\* A byte string of n bytes, each of value f (n as a byte count).
Bytes(f, n) == [fill |-> IF n = SizeOf(0) THEN 0 ELSE f, len |-> n]
NoBytes == Bytes(0, SizeOf(0))

----------------------------------------------------------------------------
(* encoding/hex *)

hextable == <<"0", "1", "2", "3", "4", "5", "6", "7",
              "8", "9", "a", "b", "c", "d", "e", "f">>
hexupper == <<"0", "1", "2", "3", "4", "5", "6", "7",
              "8", "9", "A", "B", "C", "D", "E", "F">>

\* An EncodeToString that writes a byte below 16 as one digit (no zero padding).
RECURSIVE EncodeToString_NoPad(_)
EncodeToString_NoPad(src) ==
    IF src = <<>>
    THEN <<>>
    ELSE LET v == Head(src)
         IN  (IF v < 16 THEN <<hextable[v + 1]>>
              ELSE <<hextable[(v \div 16) + 1], hextable[(v % 16) + 1]>>)
             \o EncodeToString_NoPad(Tail(src))

\* hex.EncodeToString: two lower-case digits per byte, high nibble first.
EncodeToString(src) ==
    [i \in 1..(2 * Len(src)) |->
        LET v == src[(i + 1) \div 2]
        IN  IF i % 2 = 1 THEN hextable[(v \div 16) + 1] ELSE hextable[(v % 16) + 1]]

\* The value of every hex digit, lower and upper case.
hexvalue ==
    [c \in {hextable[i] : i \in 1..16} \cup {hexupper[i] : i \in 1..16} |->
        IF \E i \in 1..16 : hextable[i] = c
        THEN (CHOOSE i \in 1..16 : hextable[i] = c) - 1
        ELSE (CHOOSE i \in 1..16 : hexupper[i] = c) - 1]

\* fromHexChar: the value of a hex digit of either case, or -1.
fromHexChar(c) == IF c \in DOMAIN hexvalue THEN hexvalue[c] ELSE -1

\* hex.DecodeString: fails on a non-hex character or an odd length.
DecodeString(s) ==
    IF \E i \in 1..Len(s) : fromHexChar(s[i]) = -1
    THEN [err |-> "encoding/hex: invalid byte", val |-> <<>>]
    ELSE IF Len(s) % 2 = 1
    THEN [err |-> "encoding/hex: odd length hex string", val |-> <<>>]
    ELSE [err |-> "",
          val |-> [i \in 1..(Len(s) \div 2) |->
                      16 * fromHexChar(s[2 * i - 1]) + fromHexChar(s[2 * i])]]

----------------------------------------------------------------------------
(* crypto/aes, crypto/cipher: AES-GCM as an ideal AEAD.  The sealed output *)
(* (ciphertext and tag) of plaintext p under key k and nonce n is the term *)
(* [k, n, p]; it opens only under the same key and nonce.                  *)

\* aes.NewCipher: accepts keys of 16, 24 or 32 bytes.
NewCipher(key) ==
    IF Len(key) \in {16, 24, 32} THEN "" ELSE "crypto/aes: invalid key size"

\* aesgcm.Seal(nil, nonce, plaintext, nil)
Seal(key, nonce, plaintext) == [k |-> key, n |-> nonce, p |-> plaintext]

\* aesgcm.Open(nil, nonce, ciphertext, nil); ciphertext is the bytes after
\* the nonce: <<>> when the blob ends there, else <<sealed output>>.
Open(key, nonce, ciphertext) ==
    IF Len(ciphertext) = 1 /\ ciphertext[1].k = key /\ ciphertext[1].n = nonce
    THEN [err |-> "", plaintext |-> ciphertext[1].p]
    ELSE [err |-> "cipher: message authentication failed", plaintext |-> NoBytes]

\* len(encryptedData)
BlobLen(data) ==
    IF Len(data.sealed) = 0
    THEN SizeOf(Len(data.nonce))
    ELSE SizeAdd(data.sealed[1].p.len, Len(data.nonce) + gcmTagSize)

----------------------------------------------------------------------------
(* Random sources.  rnd is what crypto/rand and the database do during one *)
(* upload: rnd.key and rnd.id pick the random values, rnd.fail names the   *)
(* step that fails ("none", "key", "nonce", "begin", "commit").  No claim  *)
(* depends on the value of a nonce, so the nonce read returns one value.   *)

KeyBytes(i) == [j \in 1..keySize |-> i]
NonceBytes == [j \in 1..nonceSize |-> 200 + j]

\* generateRandomKey
generateRandomKey(rnd) ==
    [key |-> KeyBytes(rnd.key),
     err |-> IF rnd.fail = "key" THEN "rand: read failed" ELSE ""]

\* generateID
generateID(rnd) == EncodeToString([j \in 1..idBytes |-> 160 + rnd.id])

NoData == [nonce |-> <<>>, sealed |-> <<>>]

\* encryptFile: in is the file part's content.
encryptFile(in, key, rnd) ==
    IF NewCipher(key) # ""
    THEN [data |-> NoData, err |-> NewCipher(key)]
    ELSE IF rnd.fail = "nonce"
    THEN [data |-> NoData, err |-> "unexpected EOF"]
    ELSE LET nonce == NonceBytes
             plaintext == in
             ciphertext == Seal(key, nonce, plaintext)
         IN  [data |-> [nonce |-> nonce, sealed |-> <<ciphertext>>], err |-> ""]

\* decryptFile
decryptFile(encryptedData, key) ==
    IF SizeLT(BlobLen(encryptedData), SizeOf(nonceSize))
    THEN [plaintext |-> NoBytes, err |-> "ciphertext too short"]
    ELSE IF NewCipher(key) # ""
    THEN [plaintext |-> NoBytes, err |-> NewCipher(key)]
    ELSE LET nonce == SubSeq(encryptedData.nonce, 1, nonceSize)
             ciphertext == encryptedData.sealed
         IN  Open(key, nonce, ciphertext)

\* A decryptAndStreamFile that writes what it has before the tag is checked.
decryptAndStreamFile_WriteFirst(w, encryptedData, key) ==
    IF SizeLT(BlobLen(encryptedData), SizeOf(nonceSize))
    THEN [w |-> w, err |-> "ciphertext too short"]
    ELSE IF NewCipher(key) # ""
    THEN [w |-> w, err |-> NewCipher(key)]
    ELSE LET nonce == SubSeq(encryptedData.nonce, 1, nonceSize)
             opened == Open(key, nonce, encryptedData.sealed)
         IN  [w |-> IF Len(encryptedData.sealed) = 0 THEN w
                    ELSE Append(w, encryptedData.sealed[1].p),
              err |-> opened.err]

\* decryptAndStreamFile: w is what has been written to the writer.
decryptAndStreamFile(w, encryptedData, key) ==
    IF SizeLT(BlobLen(encryptedData), SizeOf(nonceSize))
    THEN [w |-> w, err |-> "ciphertext too short"]
    ELSE IF NewCipher(key) # ""
    THEN [w |-> w, err |-> NewCipher(key)]
    ELSE LET nonce == SubSeq(encryptedData.nonce, 1, nonceSize)
             opened == Open(key, nonce, encryptedData.sealed)
         IN  IF opened.err # ""
             THEN [w |-> w, err |-> opened.err]
             ELSE [w |-> Append(w, opened.plaintext), err |-> ""]

----------------------------------------------------------------------------
(* The files table *)

\* createFilesTable: the columns of a row; id is the primary key.
Columns == {"id", "name", "data"}

\* A storeFileInDB without a transaction: the insert stays when the commit fails.
storeFileInDB_NoRollback(db, id, fileName, encryptedData, rnd) ==
    IF rnd.fail = "begin"
    THEN [db |-> db, err |-> "sql: begin failed"]
    ELSE IF id \in DOMAIN db
    THEN [db |-> db, err |-> "pq: duplicate key value violates unique constraint"]
    ELSE LET row == [id |-> id, name |-> fileName, data |-> encryptedData]
         IN  IF rnd.fail = "commit"
             THEN [db |-> db @@ (id :> row), err |-> "sql: commit failed"]
             ELSE [db |-> db @@ (id :> row), err |-> ""]

\* A storeFileInDB that writes the hex key into the name column.
storeFileInDB_KeyInName(db, id, fileName, encryptedData, rnd) ==
    IF rnd.fail \in {"begin", "commit"} \/ id \in DOMAIN db
    THEN [db |-> db, err |-> "store failed"]
    ELSE [db |-> db @@ (id :> [id |-> id,
                               name |-> EncodeToString(encryptedData.sealed[1].k),
                               data |-> encryptedData]),
          err |-> ""]

\* A storeFileInDB whose insert replaces the row of an id already stored
\* (INSERT ... ON CONFLICT (id) DO UPDATE).
storeFileInDB_Upsert(db, id, fileName, encryptedData, rnd) ==
    IF rnd.fail = "begin"
    THEN [db |-> db, err |-> "sql: begin failed"]
    ELSE IF rnd.fail = "commit"
    THEN [db |-> db, err |-> "sql: commit failed"]
    ELSE [db |-> [i \in DOMAIN db \cup {id} |->
                    IF i = id THEN [id |-> id, name |-> fileName, data |-> encryptedData]
                    ELSE db[i]],
          err |-> ""]

\* storeFileInDB: BeginTx, INSERT, Commit; the deferred Rollback undoes the
\* insert on every error path.
storeFileInDB(db, id, fileName, encryptedData, rnd) ==
    IF rnd.fail = "begin"
    THEN [db |-> db, err |-> "sql: begin failed"]
    ELSE IF id \in DOMAIN db
    THEN [db |-> db, err |-> "pq: duplicate key value violates unique constraint"]
    ELSE IF rnd.fail = "commit"
    THEN [db |-> db, err |-> "sql: commit failed"]
    ELSE [db |-> db @@ (id :> [id |-> id, name |-> fileName, data |-> encryptedData]),
          err |-> ""]

\* getFileFromDB
getFileFromDB(db, id) ==
    IF id \in DOMAIN db
    THEN [fileName |-> db[id].name, encryptedData |-> db[id].data, err |-> ""]
    ELSE [fileName |-> <<>>, encryptedData |-> NoData, err |-> "file not found"]

----------------------------------------------------------------------------
(* Requests and responses *)

NoResp ==
    [status |-> 0, ctype |-> "", disposition |-> {}, written |-> <<>>,
     kind |-> "none", msg |-> "", id |-> <<>>, key |-> <<>>,
     fileName |-> <<>>, fileSize |-> ""]

\* handleError: c.JSON(code, {"error": msg}) in the echo build, http.Error in
\* the net/http build.  h is the response as the handler has left it so far.
handleError(v, h, msg, code) ==
    [h EXCEPT !.status = IF h.status = 0 THEN code ELSE h.status,
              !.ctype = IF v = "echo" THEN "application/json" ELSE "text/plain",
              !.kind = "error",
              !.msg = msg]

\* r.ParseMultipartForm(maxMemory): maxMemory bounds only what is kept in
\* memory, the rest of a larger body goes to temporary files.  It fails on a
\* body that is no multipart form and when reading the body fails, which the
\* body-limit reader makes happen past readLimit bytes (readLimit = {} when
\* no such reader wraps the body).
ParseMultipartForm(r, maxMemory, readLimit) ==
    IF r.form = "malformed"
    THEN "no multipart boundary param in Content-Type"
    ELSE IF \E lim \in readLimit : SizeGT(r.bodySize, lim)
    THEN "code=413, message=Request Entity Too Large"
    ELSE ""

\* r.FormFile("file")
FormFile(r) == IF r.form = "nofile" THEN "http: no such file" ELSE ""

\* The body-limit middleware's limit: fmt.Sprintf("%dM", maxUploadSize/(1024*1024)).
BodyLimitBytes(v) == Size(maxUploadSize(v).mb, 0)

\* The reader the handler reads the body through.
BodyReadLimit(v) == IF v = "echo" THEN {BodyLimitBytes(v)} ELSE {}

\* handleUpload
handleUpload(v, db, r, rnd) ==
    LET parseErr == ParseMultipartForm(r, maxUploadSize(v), BodyReadLimit(v))
        k == generateRandomKey(rnd)
        id == generateID(rnd)
        enc == encryptFile(r.payload, k.key, rnd)
        st == storeFileInDB(db, id, r.fileName, enc.data, rnd)
        encodedKey == EncodeToString(k.key)
    IN  IF parseErr # ""
        THEN [db |-> db,
              resp |-> handleError(v, NoResp, "error parsing multipart form: " \o parseErr, 400)]
        ELSE IF k.err # ""
        THEN [db |-> db,
              resp |-> handleError(v, NoResp, "error generating encryption key: " \o k.err, 500)]
        ELSE IF FormFile(r) # ""
        THEN [db |-> db,
              resp |-> handleError(v, NoResp, "error getting form file: " \o FormFile(r), 400)]
        ELSE IF enc.err # ""
        THEN [db |-> db,
              resp |-> handleError(v, NoResp, "error encrypting file: " \o enc.err, 500)]
        ELSE IF st.err # ""
        THEN [db |-> st.db,
              resp |-> handleError(v, NoResp, "error storing file in database: " \o st.err, 500)]
        ELSE [db |-> st.db,
              resp |-> [NoResp EXCEPT !.status = 200,
                                      !.ctype = IF v = "echo" THEN "application/json"
                                                ELSE "text/plain",
                                      !.kind = "upload",
                                      !.id = id,
                                      !.key = encodedKey]]

\* A handleDownload that sets up the cipher before it looks the file up.
handleDownload_CipherFirst(v, db, r) ==
    LET dec == DecodeString(r.key)
        row == getFileFromDB(db, r.id)
        out == decryptAndStreamFile(<<>>, row.encryptedData, dec.val)
    IN  IF dec.err # ""
        THEN handleError(v, NoResp, "invalid key: " \o dec.err, 400)
        ELSE IF NewCipher(dec.val) # ""
        THEN handleError(v, NoResp,
                         "error decrypting and streaming file: " \o NewCipher(dec.val), 500)
        ELSE IF row.err # ""
        THEN handleError(v, NoResp, "error getting file from database: " \o row.err, 500)
        ELSE IF out.err # ""
        THEN handleError(v, [NoResp EXCEPT !.disposition = {row.fileName}],
                         "error decrypting and streaming file: " \o out.err, 500)
        ELSE [NoResp EXCEPT !.disposition = {row.fileName}, !.status = 200,
                            !.kind = "file", !.written = out.w]

\* handleDownload.  The first Write sends status 200 and the headers; an
\* error reported after it cannot change them.
handleDownload(v, db, r) ==
    LET dec == DecodeString(r.key)
        row == getFileFromDB(db, r.id)
        hdr == [NoResp EXCEPT !.disposition = {row.fileName}]
        out == decryptAndStreamFile(<<>>, row.encryptedData, dec.val)
        sent == [hdr EXCEPT !.status = IF out.w # <<>> THEN 200 ELSE 0,
                            !.written = out.w]
    IN  IF dec.err # ""
        THEN handleError(v, NoResp, "invalid key: " \o dec.err, 400)
        ELSE IF row.err # ""
        THEN handleError(v, NoResp, "error getting file from database: " \o row.err, 500)
        ELSE IF out.err # ""
        THEN handleError(v, sent, "error decrypting and streaming file: " \o out.err, 500)
        ELSE [sent EXCEPT !.status = 200, !.kind = "file"]

----------------------------------------------------------------------------
(* fmt.Sprintf("%.2f", x) for x = num / den, den a power of two: the float *)
(* holds the quotient exactly and the digits are rounded half to even.     *)

digits == <<"0", "1", "2", "3", "4", "5", "6", "7", "8", "9">>

RECURSIVE Itoa(_)
Itoa(n) == IF n < 10 THEN digits[n + 1] ELSE Itoa(n \div 10) \o digits[(n % 10) + 1]

\* base + num/den in hundredths; base is already in hundredths.
Hundredths(base, num, den) ==
    LET q == base + ((num * 100) \div den)
        r == (num * 100) % den
    IN  IF 2 * r > den \/ (2 * r = den /\ q % 2 = 1) THEN q + 1 ELSE q

Sprintf2f(h) ==
    Itoa(h \div 100) \o "." \o digits[((h \div 10) % 10) + 1] \o digits[(h % 10) + 1]

\* The size formatting written with > for >=.
formatFileSize_Greater(fileSizeBytes) ==
    IF SizeGT(fileSizeBytes, Size(1, 0))
    THEN Sprintf2f(Hundredths(fileSizeBytes.mb * 100, fileSizeBytes.b, MiB)) \o " MB"
    ELSE IF fileSizeBytes = Size(1, 0) THEN "1024.00 KB"
    ELSE Sprintf2f(Hundredths(0, fileSizeBytes.b, 1024)) \o " KB"

\* handleGetFileInfo, the fileSize string.
formatFileSize(fileSizeBytes) ==
    IF SizeGE(fileSizeBytes, Size(1, 0))
    THEN Sprintf2f(Hundredths(fileSizeBytes.mb * 100, fileSizeBytes.b, MiB)) \o " MB"
    ELSE Sprintf2f(Hundredths(0, fileSizeBytes.b, 1024)) \o " KB"

\* handleGetFileInfo
handleGetFileInfo(v, db, r) ==
    LET dec == DecodeString(r.key)
        row == getFileFromDB(db, r.id)
        pt == decryptFile(row.encryptedData, dec.val)
    IN  IF dec.err # ""
        THEN handleError(v, NoResp, "invalid key: " \o dec.err, 400)
        ELSE IF row.err # ""
        THEN handleError(v, NoResp, "error getting file from database: " \o row.err, 500)
        ELSE IF pt.err # ""
        THEN handleError(v, NoResp, "error decrypting file: " \o pt.err, 500)
        ELSE [NoResp EXCEPT !.status = 200,
                            !.ctype = "application/json",
                            !.kind = "info",
                            !.fileName = row.fileName,
                            !.fileSize = formatFileSize(pt.plaintext.len)]

----------------------------------------------------------------------------
(* Routing and middleware *)

\* The routes registered: registerHandlers (echo), main (net/http).
Route(method, path) ==
    IF path \in {"/upload", "/download/", "/get/"}
    THEN IF method = (IF path = "/upload" THEN "POST" ELSE "GET")
         THEN path
         ELSE "MethodNotAllowed"
    ELSE "NotFound"

\* The router with the handlers behind it.
Dispatch(v, db, r, rnd) ==
    LET h == Route(r.method, r.path)
    IN  IF h = "/upload" THEN handleUpload(v, db, r, rnd)
        ELSE IF h = "/download/" THEN [db |-> db, resp |-> handleDownload(v, db, r)]
        ELSE IF h = "/get/" THEN [db |-> db, resp |-> handleGetFileInfo(v, db, r)]
        ELSE IF h = "MethodNotAllowed"
        THEN [db |-> db, resp |-> [NoResp EXCEPT !.status = 405, !.kind = "error",
                                                  !.msg = "Method Not Allowed"]]
        ELSE [db |-> db, resp |-> [NoResp EXCEPT !.status = 404, !.kind = "error",
                                                  !.msg = "Not Found"]]

\* middleware.Logger: one line per request that reaches it, with the
\* request URI, query string included.
Logger(r) == [method |-> r.method, path |-> r.path, id |-> r.id, query |-> r.key]

\* middleware.StaticWithConfig with HTML5: a request no route matches is
\* answered with the index page when dist holds one.
Static(dist, out) ==
    IF out.resp.status = 404 /\ out.resp.msg = "Not Found" /\ dist
    THEN [out EXCEPT !.resp = [NoResp EXCEPT !.status = 200, !.ctype = "text/html",
                                             !.kind = "html"]]
    ELSE out

\* middleware.BodyLimit: refuses a request whose Content-Length is over the
\* limit; a body of undeclared length (chunked) is cut off while it is read.
BodyLimit(v, r) == ~r.chunked /\ SizeGT(r.bodySize, BodyLimitBytes(v))

\* One request through the server: [db, resp, log], log the set of lines
\* written (none or one).
ServeHTTP(v, dist, db, r, rnd) ==
    IF v = "echo"
    THEN IF BodyLimit(v, r)
         THEN [db |-> db,
               resp |-> [NoResp EXCEPT !.status = 413, !.kind = "error",
                                       !.ctype = "application/json",
                                       !.msg = "Request Entity Too Large"],
               log |-> {}]
         ELSE LET out == Static(dist, Dispatch(v, db, r, rnd))
              IN  [db |-> out.db, resp |-> out.resp, log |-> {Logger(r)}]
    ELSE LET out == Dispatch(v, db, r, rnd)
         IN  [db |-> out.db, resp |-> out.resp, log |-> {}]

----------------------------------------------------------------------------
(* Inputs *)

Variants == {"echo", "nethttp"}

\* The files a client uploads: a small one, an empty one, and one a byte
\* over the build's maximum upload size.
UploadFiles(v) ==
    {[name |-> <<"a">>, payload |-> Bytes(7, SizeOf(500))],
     [name |-> <<"b">>, payload |-> NoBytes],
     [name |-> <<"c">>, payload |-> Bytes(9, SizeAdd(maxUploadSize(v), 1))]}

\* The request bodies of POST /upload: each file as a well-formed form, with
\* a declared or an undeclared (chunked) length; a body that is no multipart
\* form; a form without the "file" field.
UploadBodies(v) ==
    {[form |-> "ok", file |-> f, chunked |-> c] : f \in UploadFiles(v), c \in BOOLEAN}
    \cup {[form |-> fm, file |-> [name |-> <<>>, payload |-> NoBytes], chunked |-> FALSE] :
              fm \in {"malformed", "nofile"}}

\* What the random sources and the database can do during one upload.  A
\* step that fails before a random value is used leaves that value at 1.
Rnds ==
    {rnd \in [key : 1..NumKeys, id : 1..NumIds,
              fail : {"none", "key", "nonce", "begin", "commit"}] :
        /\ rnd.fail = "key" => rnd.key = 1
        /\ rnd.fail \in {"key", "nonce", "begin"} => rnd.id = 1}

NoRnd == [key |-> 1, id |-> 1, fail |-> "none"]

\* The key query parameters a client sends: the hex of every key the server
\* can generate, the same in upper case for the first, a 16-byte key, an
\* empty key, a string of odd length and one that is not hex.
UpperHex(s) == [i \in 1..Len(s) |-> hexupper[fromHexChar(s[i]) + 1]]
QueryKeys ==
    {EncodeToString(KeyBytes(i)) : i \in 1..NumKeys}
    \cup {UpperHex(EncodeToString([j \in 1..keySize |-> 171])),
          EncodeToString([j \in 1..16 |-> 1]),
          <<>>, <<"0", "1", "0">>, <<"z", "z">>}

ServerIds == {generateID([NoRnd EXCEPT !.id = i]) : i \in 1..NumIds}
UnknownId == <<"n", "o">>
QueryIds == ServerIds \cup {UnknownId}

Request(method, path, id, key, body) ==
    [method |-> method, path |-> path, id |-> id, key |-> key,
     form |-> body.form, fileName |-> body.file.name, payload |-> body.file.payload,
     chunked |-> body.chunked,
     bodySize |-> IF body.form = "none" THEN SizeOf(0)
                  ELSE SizeAdd(body.file.payload.len, FormOverhead)]

NoBody == [form |-> "none", file |-> [name |-> <<>>, payload |-> NoBytes], chunked |-> FALSE]
NoReq == Request("", "", <<>>, <<>>, NoBody)
NoLog == [method |-> "", path |-> "", id |-> <<>>, query |-> <<>>]

----------------------------------------------------------------------------
(* The server *)

InitServer ==
    /\ variant \in Variants
    /\ files = <<>>
    /\ issued = {}
    /\ req = NoReq
    /\ resp = NoResp
    /\ logLine = NoLog

InitClientIdle ==
    /\ distIndex = TRUE
    /\ cpc = "idle"
    /\ cfile = [name |-> <<"a">>, size |-> 0]
    /\ cidx = 0
    /\ csent = <<>>

InitFmtIdle ==
    /\ fmtIn = SizeOf(0)
    /\ fmtOut = ""

\* A goroutine that serves no request.
NoGor == [pc |-> "idle", req |-> NoReq, rnd |-> NoRnd, snap |-> <<>>]

InitConcIdle == gor = <<NoGor>>

Init == InitServer /\ InitClientIdle /\ InitFmtIdle /\ InitConcIdle

\* The server answers request r; rnd is what its random sources return.
Answer(r, rnd) ==
    \E out \in {ServeHTTP(variant, distIndex, files, r, rnd)} :
        /\ req' = r
        /\ files' = out.db
        /\ resp' = out.resp
        /\ logLine' = IF out.log = {} THEN NoLog ELSE CHOOSE l \in out.log : TRUE
        /\ issued' = IF out.resp.kind = "upload"
                      THEN issued \cup {[id |-> out.resp.id, key |-> out.resp.key,
                                         name |-> r.fileName, payload |-> r.payload]}
                      ELSE issued
        /\ UNCHANGED <<variant, distIndex>>

\* One exchange is served at a time here; SpecConc below interleaves the
\* handlers' database statements.
Serve(r, rnd) == req = NoReq /\ Answer(r, rnd)

\* POST /upload
Upload ==
    \E body \in UploadBodies(variant), rnd \in Rnds :
        /\ body.form = "malformed" => rnd = NoRnd
        /\ Serve(Request("POST", "/upload", <<>>, <<>>, body), rnd)
        /\ UNCHANGED <<clientVars, fmtVars, concVars>>

\* GET /download/:id?key=
Download ==
    \E id \in QueryIds, key \in QueryKeys :
        /\ Serve(Request("GET", "/download/", id, key, NoBody), NoRnd)
        /\ UNCHANGED <<clientVars, fmtVars, concVars>>

\* GET /get/:id?key=
GetFileInfo ==
    \E id \in QueryIds, key \in QueryKeys :
        /\ Serve(Request("GET", "/get/", id, key, NoBody), NoRnd)
        /\ UNCHANGED <<clientVars, fmtVars, concVars>>

\* The response has gone out and the exchange is over.
Finish ==
    /\ req # NoReq
    /\ cpc = "idle"
    /\ req' = NoReq
    /\ resp' = NoResp
    /\ logLine' = NoLog
    /\ UNCHANGED <<variant, distIndex, files, issued, clientVars, fmtVars, concVars>>

Next == Upload \/ Download \/ GetFileInfo \/ Finish

Spec == Init /\ [][Next]_vars

----------------------------------------------------------------------------
(* The browser client, client/assets/index.js *)

MaxChunks == 3     \* the largest selected file has this many full chunks

FileSizes ==
    {0, 1, MaxChunks * CHUNK_SIZE}
    \cup {k * CHUNK_SIZE : k \in 1..(MaxChunks - 1)}
    \cup {k * CHUNK_SIZE + 1 : k \in 1..(MaxChunks - 1)}

ClientFiles == [name : {<<"a">>, <<"b">>}, size : FileSizes]

\* Math.ceil(fileSize / CHUNK_SIZE)
chunkCount(fileSize) ==
    IF fileSize % CHUNK_SIZE = 0
    THEN fileSize \div CHUNK_SIZE
    ELSE (fileSize \div CHUNK_SIZE) + 1

Min(a, b) == IF a < b THEN a ELSE b

\* The form data of chunk chunkIndex: file.slice(start, end) and its fields.
ChunkForm(file, chunkIndex) ==
    LET start == chunkIndex * CHUNK_SIZE
        end == Min(start + CHUNK_SIZE, file.size)
    IN  [form |-> "ok",
         file |-> [name |-> file.name, payload |-> Bytes(7, SizeOf(end - start))],
         chunked |-> FALSE]

CompleteForm(file) ==
    [form |-> "ok", file |-> [name |-> file.name, payload |-> NoBytes], chunked |-> FALSE]

InitClient ==
    /\ InitServer
    /\ distIndex \in BOOLEAN
    /\ cpc = "idle"
    /\ cfile \in ClientFiles
    /\ cidx = 0
    /\ csent = <<>>
    /\ InitFmtIdle
    /\ InitConcIdle

\* The submit handler calls uploadFileInChunks(file).
uploadFileInChunks ==
    /\ cpc = "idle"
    /\ cpc' = "loop"
    /\ cidx' = 0
    /\ UNCHANGED <<serverVars, cfile, csent, fmtVars, concVars>>

\* uploadChunk: xhr.send(formData) of the for loop's current chunk.
uploadChunk ==
    /\ cpc = "loop"
    /\ cidx < chunkCount(cfile.size)
    /\ cpc' = "chunk"
    /\ req' = Request("POST", "/upload_chunk", <<>>, <<>>, ChunkForm(cfile, cidx))
    /\ resp' = NoResp
    /\ logLine' = NoLog
    /\ csent' = Append(csent, [path |-> "/upload_chunk", chunkIndex |-> cidx, status |-> -1])
    /\ UNCHANGED <<variant, distIndex, files, issued, cfile, cidx, fmtVars, concVars>>

\* The last request sent has been answered with status.
Answered(status) == csent' = [csent EXCEPT ![Len(csent)].status = status]

\* An xhr.onload that resolves whatever the status of the answer.
xhrOnload_AnyStatus ==
    /\ cpc = "chunk"
    /\ Answer(req, NoRnd)
    /\ Answered(resp'.status)
    /\ cpc' = "loop"
    /\ cidx' = cidx + 1
    /\ UNCHANGED <<cfile, fmtVars, concVars>>

\* xhr.onload: the server has answered the chunk request.
xhrOnload ==
    /\ cpc = "chunk"
    /\ Answer(req, NoRnd)
    /\ Answered(resp'.status)
    /\ IF resp'.status = 200
       THEN cpc' = "loop" /\ cidx' = cidx + 1
       ELSE cpc' = "failed" /\ cidx' = cidx
    /\ UNCHANGED <<cfile, fmtVars, concVars>>

\* xhr.onerror: the chunk request failed on the network.
xhrOnerror ==
    /\ cpc = "chunk"
    /\ cpc' = "failed"
    /\ Answered(0)
    /\ UNCHANGED <<serverVars, cfile, cidx, fmtVars, concVars>>

\* fetch(baseUrl + "/upload_complete") after the loop.
fetchComplete ==
    /\ cpc = "loop"
    /\ cidx >= chunkCount(cfile.size)
    /\ cpc' = "complete"
    /\ req' = Request("POST", "/upload_complete", <<>>, <<>>, CompleteForm(cfile))
    /\ resp' = NoResp
    /\ logLine' = NoLog
    /\ csent' = Append(csent, [path |-> "/upload_complete",
                               chunkIndex |-> chunkCount(cfile.size), status |-> -1])
    /\ UNCHANGED <<variant, distIndex, files, issued, cfile, cidx, fmtVars, concVars>>

\* The fetch resolves: !ok throws, a body that is not JSON makes
\* completeResponse.json() throw, else the page moves to /?id=..&key=..
completeResponse ==
    /\ cpc = "complete"
    /\ Answer(req, NoRnd)
    /\ cpc' = IF resp'.status \in 200..299 /\ resp'.kind = "upload"
              THEN "navigated"
              ELSE "failed"
    /\ Answered(resp'.status)
    /\ UNCHANGED <<cfile, cidx, fmtVars, concVars>>

\* The fetch rejects: network error.
completeNetworkError ==
    /\ cpc = "complete"
    /\ cpc' = "failed"
    /\ Answered(0)
    /\ UNCHANGED <<serverVars, cfile, cidx, fmtVars, concVars>>

NextClient ==
    \/ uploadFileInChunks
    \/ uploadChunk
    \/ xhrOnload
    \/ xhrOnerror
    \/ fetchComplete
    \/ completeResponse
    \/ completeNetworkError

SpecClient == InitClient /\ [][NextClient]_vars

----------------------------------------------------------------------------
(* The size formatting on its own *)

MaxSmall == 600    \* sizes 0..MaxSmall bytes
MaxNear == 8       \* sizes within MaxNear bytes of a whole MiB
MaxMiB == 3        \* whole MiB up to MaxMiB

FmtInputs ==
    {SizeOf(n) : n \in 0..MaxSmall}
    \cup {Size(m, k) : m \in 1..MaxMiB, k \in 0..MaxNear}
    \cup {Size(m - 1, MiB - k) : m \in 1..MaxMiB, k \in 1..MaxNear}
    \cup {Size(m, k * (MiB \div 8)) : m \in 0..MaxMiB, k \in 1..7}

InitFmt ==
    /\ InitServer
    /\ InitClientIdle
    /\ fmtIn \in FmtInputs
    /\ fmtOut = ""
    /\ InitConcIdle

\* handleGetFileInfo formats the size of the decrypted file.
FormatSize ==
    /\ fmtOut = ""
    /\ fmtOut' = formatFileSize(fmtIn)
    /\ UNCHANGED <<serverVars, clientVars, fmtIn, concVars>>

NextFmt == FormatSize

SpecFmt == InitFmt /\ [][NextFmt]_vars

----------------------------------------------------------------------------
(* Properties *)

\* The response to GET path/:id?key= in the current state.
Get(path, id, key) ==
    ServeHTTP(variant, distIndex, files, Request("GET", path, id, key, NoBody), NoRnd).resp

ReadPaths == {"/download/", "/get/"}

\* No exchange is being served.  Finish leaves variant, files and issued as
\* they are, so what holds of them in every such state holds in every state.
Idle == req = NoReq

\* C1: every {id, key} a successful upload of payload P under name N has
\* answered keeps working whatever requests follow: the download writes
\* exactly P with Content-Disposition naming N, and the metadata request
\* returns N and the size of P.
C1_RoundTrip ==
    Idle => \A u \in issued :
        LET d == Get("/download/", u.id, u.key)
            g == Get("/get/", u.id, u.key)
        IN  /\ d.status = 200
            /\ d.kind = "file"
            /\ d.written = <<u.payload>>
            /\ d.disposition = {u.name}
            /\ g.status = 200
            /\ g.kind = "info"
            /\ g.fileName = u.name
            /\ g.fileSize = formatFileSize(u.payload.len)

\* A second file was uploaded after the first, and a download with an
\* issued pair has been answered with the file.
C1_Witness ==
    /\ Cardinality(issued) >= 2
    /\ req.path = "/download/"
    /\ \E u \in issued : u.id = req.id /\ u.key = req.key /\ u.payload.len # SizeOf(0)
    /\ resp.kind = "file"

\* What a stored blob can be cut or changed to.
Tampered(data) ==
    {data,
     [nonce |-> SubSeq(data.nonce, 1, nonceSize - 1), sealed |-> <<>>],
     [data EXCEPT !.nonce = [j \in 1..nonceSize |-> 0]]}

WellFormedKeys == {q \in QueryKeys : DecodeString(q).err = ""}
DecodedKeys == {DecodeString(k).val : k \in WellFormedKeys}

\* C2: whenever opening a stored blob fails (wrong key, key of a wrong
\* length, blob shorter than the nonce, failed authentication), the
\* download and the metadata request answer with an error and not one
\* plaintext byte has been written.
C2_NoPlaintextOnFailure ==
    /\ Idle => \A id \in DOMAIN files, key \in DecodedKeys :
           \A data \in Tampered(files[id].data) :
               LET streamed == decryptAndStreamFile(<<>>, data, key)
               IN  decryptFile(data, key).err # ""
                       => streamed.err # "" /\ streamed.w = <<>>
    /\ Idle => \A id \in DOMAIN files, k \in WellFormedKeys :
           decryptFile(files[id].data, DecodeString(k).val).err # ""
               => \A path \in ReadPaths :
                      LET g == Get(path, id, k)
                      IN  /\ g.kind = "error"
                          /\ g.status = 500
                          /\ g.written = <<>>
                          /\ g.fileName = <<>>
                          /\ g.fileSize = ""
    /\ resp.kind = "error" => resp.written = <<>>

\* A download of a stored file with a 32-byte key that is not its key has
\* been answered.
C2_Witness ==
    /\ req.path = "/download/"
    /\ req.id \in DOMAIN files
    /\ DecodeString(req.key).err = ""
    /\ Len(DecodeString(req.key).val) = keySize
    /\ decryptFile(files[req.id].data, DecodeString(req.key).val).err # ""
    /\ files[req.id].data.sealed[1].p.len # SizeOf(0)
    /\ resp.kind = "error"

\* The keys generateRandomKey can return, raw and as the upload answers them.
GeneratedKeys == {[raw |-> KeyBytes(i), hex |-> EncodeToString(KeyBytes(i))] : i \in 1..NumKeys}

\* C3: no row of the table holds an encryption key: a row is the generated
\* id, the uploaded file name and the sealed blob, and no column can be read
\* as a key the server generates, raw or in hex.
C3_NoKeyInRows ==
    \A id \in DOMAIN files :
        /\ DOMAIN files[id] = Columns
        /\ \E u \in issued : \E k \in GeneratedKeys :
               /\ u.id = id
               /\ u.key = k.hex
               /\ files[id] = [id |-> id, name |-> u.name,
                               data |-> [nonce |-> NonceBytes,
                                         sealed |-> <<Seal(k.raw, NonceBytes, u.payload)>>]]
        /\ \A k \in GeneratedKeys :
               /\ files[id].id # k.hex
               /\ files[id].name # k.hex
               /\ files[id].data.nonce # k.raw

\* Two files are stored and an upload has just failed.
C3_Witness ==
    /\ Cardinality(DOMAIN files) >= 2
    /\ req.path = "/upload"
    /\ resp.kind = "error"

\* The transition is the serving of a POST /upload.
UploadServed == req = NoReq /\ req'.path = "/upload"

\* C4: an upload answers {id, key} only with the row of id committed, and
\* an upload that fails at any step (form parsing, key generation, the file
\* field, encryption, insert, commit) answers an error without id or key
\* and adds no row: the table is as it was.
C4_UploadAtomic ==
    [][UploadServed =>
          IF resp'.kind = "upload"
          THEN /\ resp'.status = 200
               /\ resp'.id \notin DOMAIN files
               /\ resp'.id \in DOMAIN files'
               /\ \A id \in DOMAIN files : files'[id] = files[id]
               /\ DOMAIN files' = DOMAIN files \cup {resp'.id}
               /\ files'[resp'.id].name = req'.fileName
               /\ decryptFile(files'[resp'.id].data, DecodeString(resp'.key).val)
                      = [err |-> "", plaintext |-> req'.payload]
          ELSE /\ resp'.kind = "error"
               /\ resp'.status \in {400, 413, 500}
               /\ resp'.id = <<>>
               /\ resp'.key = <<>>
               /\ files' = files
               /\ issued' = issued]_vars

\* An upload has failed at the commit with another file already stored.
C4_Witness ==
    /\ req.path = "/upload"
    /\ resp.kind = "error"
    /\ resp.msg = "error storing file in database: sql: commit failed"
    /\ files # <<>>

\* C5: a download or metadata request for an id without a row, with a key
\* that is well-formed hex, is answered "file not found" and never with a
\* decryption error, whatever the length of the key.
C5_NotFoundBeforeDecrypt ==
    Idle => \A id \in QueryIds \ DOMAIN files, k \in WellFormedKeys, path \in ReadPaths :
        LET g == Get(path, id, k)
        IN  /\ g.kind = "error"
            /\ g.status = 500
            /\ g.msg = "error getting file from database: file not found"
            /\ g.written = <<>>
            /\ g.disposition = {}

\* With a file stored, a download of an id without a row has been answered
\* for a key of a length no cipher accepts.
C5_Witness ==
    /\ files # <<>>
    /\ req.path = "/download/"
    /\ req.id \notin DOMAIN files
    /\ DecodeString(req.key).err = ""
    /\ NewCipher(DecodeString(req.key).val) # ""
    /\ resp.msg = "error getting file from database: file not found"

\* C6: to a caller without the correct key, the answer to a download or
\* metadata request for an id that has a row has the same error kind, status
\* and message as the answer for an id that has none.
C6_ExistenceNotRevealed ==
    \A id1 \in DOMAIN files, id2 \in QueryIds \ DOMAIN files, k \in QueryKeys, path \in ReadPaths :
        (\A u \in issued : u.id = id1 => u.key # k)
            => LET a == Get(path, id1, k)
                   b == Get(path, id2, k)
               IN  /\ a.kind = b.kind
                   /\ a.status = b.status
                   /\ a.msg = b.msg

\* C7: a key the server has issued is never written to the log.
C7_KeyNeverLogged ==
    \A u \in issued : logLine.query # u.key

\* C9: in both builds, an upload whose body is larger than the build's
\* maximum upload size is answered with an error, returns no {id, key} and
\* inserts no row for its payload.
C9_OversizedRejected ==
    (req.path = "/upload" /\ SizeGT(req.bodySize, maxUploadSize(variant)))
        => /\ resp.kind = "error"
           /\ \A id \in DOMAIN files : files[id].data.sealed[1].p # req.payload

\* C10: uploadFileInChunks of a file of two or more chunks, every request
\* answered by the server's registered handlers, ends on the page of a file
\* that downloads as the file selected.
C10_ChunkedUploadYieldsFile ==
    (cpc \in {"navigated", "failed"} /\ resp # NoResp /\ chunkCount(cfile.size) >= 2)
        => /\ cpc = "navigated"
           /\ resp.kind = "upload"
           /\ Get("/download/", resp.id, resp.key).written
                  = <<Bytes(7, SizeOf(cfile.size))>>
           /\ Get("/download/", resp.id, resp.key).disposition = {cfile.name}

\* The two-decimal rendering of value * 100 = h.
Nearest(h, num, den) ==
    \* |h / 100 - num / den| is at most half a hundredth
    /\ 2 * (h * den - 100 * num) <= den
    /\ 2 * (100 * num - h * den) <= den

\* C8: the size n is formatted as n / 1,048,576 with two decimals and " MB"
\* when n >= 1,048,576, else as n / 1,024 with two decimals and " KB";
\* 500 bytes give "0.49 KB", 2,097,152 bytes "2.00 MB", 1,048,575 bytes are
\* in KB and 1,048,576 bytes give "1.00 MB".
C8_SizeFormat ==
    fmtOut # "" =>
        /\ IF fmtIn.mb >= 1
           THEN \E h \in 0..100 :
                   /\ Nearest(h, fmtIn.b, MiB)
                   /\ fmtOut = Sprintf2f(fmtIn.mb * 100 + h) \o " MB"
           ELSE \E h \in 0..102400 :
                   /\ Nearest(h, fmtIn.b, 1024)
                   /\ fmtOut = Sprintf2f(h) \o " KB"
        /\ fmtIn = SizeOf(500) => fmtOut = "0.49 KB"
        /\ fmtIn = Size(2, 0) => fmtOut = "2.00 MB"
        /\ fmtIn = Size(0, MiB - 1) => fmtOut = "1024.00 KB"
        /\ fmtIn = Size(1, 0) => fmtOut = "1.00 MB"
        /\ fmtIn = SizeOf(0) => fmtOut = "0.00 KB"

\* The sizes the claim names have been formatted.
C8_Witness ==
    /\ fmtIn = Size(0, MiB - 1)
    /\ fmtOut = "1024.00 KB"

----------------------------------------------------------------------------
(* Frame of the store *)

\* The upload request r, with random draws rnd, gets as far as storeFileInDB.
ReachesStore(r, rnd) ==
    /\ ~BodyLimit(variant, r) \/ variant # "echo"
    /\ ParseMultipartForm(r, maxUploadSize(variant), BodyReadLimit(variant)) = ""
    /\ generateRandomKey(rnd).err = ""
    /\ FormFile(r) = ""
    /\ encryptFile(r.payload, generateRandomKey(rnd).key, rnd).err = ""

\* C11: a row, once committed, keeps its name and sealed blob over every
\* later request; download and metadata requests leave the whole table as
\* it was; and an upload that generates an id already in the table is
\* answered with a store error, returns no {id, key} and leaves the table
\* as it was.
C11_RecordImmutable ==
    /\ [][/\ \A id \in DOMAIN files : id \in DOMAIN files' /\ files'[id] = files[id]
          /\ (req = NoReq /\ req'.method = "GET") => files' = files
          /\ (req = NoReq /\ resp'.kind = "upload") => resp'.id \notin DOMAIN files
         ]_vars
    /\ [](Idle =>
            \A body \in UploadBodies(variant), rnd \in Rnds :
                LET r == Request("POST", "/upload", <<>>, <<>>, body)
                IN  (generateID(rnd) \in DOMAIN files /\ ReachesStore(r, rnd)) =>
                        \A out \in {ServeHTTP(variant, distIndex, files, r, rnd)} :
                            /\ out.db = files
                            /\ out.resp.kind = "error"
                            /\ out.resp.status = 500
                            /\ out.resp.id = <<>>
                            /\ out.resp.key = <<>>
                            /\ out.resp.msg \in
                                   {"error storing file in database: " \o e :
                                       e \in {"sql: begin failed",
                                              "pq: duplicate key value violates unique constraint"}})

\* An upload that generated the id of a stored file has been refused, and
\* the stored file is still the first upload's.
C11_Witness ==
    /\ req.path = "/upload"
    /\ resp.msg = "error storing file in database: pq: duplicate key value violates unique constraint"
    /\ \E u \in issued :
           /\ u.id \in DOMAIN files
           /\ files[u.id].name = u.name
           /\ u.payload # req.payload

----------------------------------------------------------------------------
(* Concurrent requests.  net/http runs every handler in a goroutine of its *)
(* own; the handlers share only the package variable db.  A goroutine's    *)
(* steps between two database statements touch only its locals and are     *)
(* taken together with the statement that follows them.                    *)

NumProcs == 2      \* goroutines serving requests at the same time

Procs == 1..NumProcs

\* The uploads the goroutines serve: two files, each sealed under a key of
\* its own, under either of two ids; the reads ask for these ids with the
\* first key.
ConcFiles ==
    {[name |-> <<"a">>, payload |-> Bytes(7, SizeOf(500))],
     [name |-> <<"b">>, payload |-> Bytes(8, SizeOf(1))]}
ConcRnds ==
    {rnd \in [key : 1..2, id : 1..2, fail : {"none"}, file : ConcFiles] :
        rnd.key = 1 <=> rnd.file.name = <<"a">>}
ConcIds == {generateID(rnd) : rnd \in ConcRnds}
ConcKeys == {EncodeToString(generateRandomKey(rnd).key) : rnd \in {c \in ConcRnds : c.key = 1}}

\* The rows of the table a SELECT ... WHERE id = $1 reads.
Snapshot(db, id) == [i \in DOMAIN db \cap {id} |-> db[i]]

\* An INSERT sent on the connection pool instead of the transaction: the row
\* is in the table before the commit.
ExecInsert_OutsideTx(db, id, fileName, encryptedData) ==
    [i \in DOMAIN db \cup {id} |->
        IF i = id THEN [id |-> id, name |-> fileName, data |-> encryptedData] ELSE db[i]]

\* tx.ExecContext(INSERT): the table other connections see after the
\* statement.  The row is held by the transaction until it commits.
ExecInsert(db, id, fileName, encryptedData) == db

\* tx.Commit(): the row of the transaction becomes part of the table.
CommitTx(db, id, fileName, encryptedData) ==
    [i \in DOMAIN db \cup {id} |->
        IF i = id THEN [id |-> id, name |-> fileName, data |-> encryptedData] ELSE db[i]]

\* The sealed blob goroutine p inserts.
Encrypted(g) == encryptFile(g.req.payload, generateRandomKey(g.rnd).key, g.rnd).data

InitConc ==
    /\ InitServer
    /\ InitClientIdle
    /\ InitFmtIdle
    /\ gor = [p \in Procs |-> NoGor]

\* Goroutines are interchangeable: a new request names the free one of
\* lowest number.
LowestFree(p) == \A q \in Procs : q < p => gor[q].pc # "idle"

ConcFrame == UNCHANGED <<variant, distIndex, req, resp, logLine, clientVars, fmtVars>>

\* handleUpload up to storeFileInDB: the form, the key, the id, the sealed blob.
cUpload(p) ==
    \E c \in ConcRnds :
        LET r == Request("POST", "/upload", <<>>, <<>>,
                         [form |-> "ok", file |-> c.file, chunked |-> FALSE])
            rnd == [key |-> c.key, id |-> c.id, fail |-> c.fail]
        IN  /\ gor[p].pc = "idle"
            /\ LowestFree(p)
            /\ ReachesStore(r, rnd)
            /\ gor' = [gor EXCEPT ![p] = [pc |-> "insert", req |-> r, rnd |-> rnd, snap |-> <<>>]]
            /\ UNCHANGED <<files, issued>>
            /\ ConcFrame

\* storeFileInDB: BeginTx and the INSERT.  The statement waits while another
\* transaction holds an uncommitted row of the same id; it fails when the id
\* is in the table, and the handler answers the store error.
cInsert(p) ==
    LET g == gor[p]
        id == generateID(g.rnd)
    IN  /\ g.pc = "insert"
        /\ \A q \in Procs \ {p} : gor[q].pc = "commit" => generateID(gor[q].rnd) # id
        /\ IF id \in DOMAIN files
           THEN /\ gor' = [gor EXCEPT ![p] = NoGor]
                /\ files' = files
           ELSE /\ gor' = [gor EXCEPT ![p].pc = "commit"]
                /\ files' = ExecInsert(files, id, g.req.fileName, Encrypted(g))
        /\ UNCHANGED issued
        /\ ConcFrame

\* storeFileInDB: tx.Commit(), then the handler answers {id, key}; when the
\* commit fails the deferred Rollback drops the row and the handler answers
\* the store error.
cCommit(p) ==
    LET g == gor[p]
        id == generateID(g.rnd)
    IN  /\ g.pc = "commit"
        /\ \E ok \in BOOLEAN :
              IF ok
              THEN /\ files' = CommitTx(files, id, g.req.fileName, Encrypted(g))
                   /\ issued' = issued \cup
                          {[id |-> id, key |-> EncodeToString(generateRandomKey(g.rnd).key),
                            name |-> g.req.fileName, payload |-> g.req.payload]}
              ELSE UNCHANGED <<files, issued>>
        /\ gor' = [gor EXCEPT ![p] = NoGor]
        /\ ConcFrame

\* handleDownload and handleGetFileInfo up to getFileFromDB: the key is decoded.
cRead(p) ==
    \E path \in ReadPaths, id \in ConcIds, key \in ConcKeys :
        /\ gor[p].pc = "idle"
        /\ LowestFree(p)
        /\ gor' = [gor EXCEPT ![p] = [pc |-> "select", rnd |-> NoRnd, snap |-> <<>>,
                                      req |-> Request("GET", path, id, key, NoBody)]]
        /\ UNCHANGED <<files, issued>>
        /\ ConcFrame

\* getFileFromDB: the SELECT reads the table as it is now.
cSelect(p) ==
    /\ gor[p].pc = "select"
    /\ gor' = [gor EXCEPT ![p].pc = "decrypt", ![p].snap = Snapshot(files, gor[p].req.id)]
    /\ UNCHANGED <<files, issued>>
    /\ ConcFrame

\* What goroutine p answers from the row it has read.
Response(p) == ServeHTTP(variant, distIndex, gor[p].snap, gor[p].req, NoRnd).resp

\* The handler decrypts what it has read and writes the response.
cRespond(p) ==
    /\ gor[p].pc = "decrypt"
    /\ gor' = [gor EXCEPT ![p] = NoGor]
    /\ UNCHANGED <<files, issued>>
    /\ ConcFrame

NextConc ==
    \E p \in Procs :
        \/ cUpload(p)
        \/ cInsert(p)
        \/ cCommit(p)
        \/ cRead(p)
        \/ cSelect(p)
        \/ cRespond(p)

SpecConc == InitConc /\ [][NextConc]_vars

\* C12: under every interleaving of the goroutines, what a download or
\* metadata request has read for its id is either no row, and it answers
\* "file not found", or the whole row a committed upload of that id stored,
\* and it answers as from the committed table; and every {id, key} an upload
\* has answered opens the row of id to that upload's own name and payload.
C12_ConcurrentIsolation ==
    /\ \A p \in Procs :
          gor[p].pc = "decrypt" =>
              LET id == gor[p].req.id
                  g == Response(p)
              IN  IF gor[p].snap = <<>>
                  THEN /\ g.kind = "error"
                       /\ g.msg = "error getting file from database: file not found"
                  ELSE /\ \E u \in issued :
                             /\ u.id = id
                             /\ gor[p].snap[id].name = u.name
                             /\ decryptFile(gor[p].snap[id].data, DecodeString(u.key).val)
                                    = [err |-> "", plaintext |-> u.payload]
                       /\ id \in DOMAIN files
                       /\ g = ServeHTTP(variant, distIndex, files, gor[p].req, NoRnd).resp
    /\ \A u \in issued :
          /\ u.id \in DOMAIN files
          /\ files[u.id].name = u.name
          /\ decryptFile(files[u.id].data, DecodeString(u.key).val)
                 = [err |-> "", plaintext |-> u.payload]
          /\ \A w \in issued : w.id = u.id => w = u

\* A download has read no row for an id while an upload that generated this
\* id holds its uncommitted row, next to the other file, which an earlier
\* upload has stored.
C12_Witness ==
    \E p, q \in Procs :
        /\ gor[p].pc = "decrypt"
        /\ gor[p].snap = <<>>
        /\ gor[q].pc = "commit"
        /\ generateID(gor[q].rnd) = gor[p].req.id
        /\ \E u \in issued : u.payload # gor[q].req.payload

----------------------------------------------------------------------------
(* What the id alone discloses *)

\* The table with the file under id replaced by file f, sealed under key.
WithFile(db, id, f, key) ==
    [db EXCEPT ![id] = [id |-> id, name |-> f.name,
                        data |-> encryptFile(f.payload, key, NoRnd).data]]

\* C13: for two tables that differ only in the name or content of the file
\* stored under id, a download of id with a key that is not the file's key
\* is answered the same, headers included, and the answer to a failed
\* decryption carries no Content-Disposition naming the stored file.
C13_IdDisclosesNothing ==
    Idle => \A u \in issued : \A k \in WellFormedKeys \ {u.key} :
        LET r == Request("GET", "/download/", u.id, k, NoBody)
            a == ServeHTTP(variant, distIndex, files, r, NoRnd).resp
        IN  /\ a.kind = "error" => a.disposition = {}
            /\ \A f \in {g \in UploadFiles(variant) :
                            ~SizeGT(g.payload.len, maxUploadSize(variant))} :
                  a = ServeHTTP(variant, distIndex,
                                WithFile(files, u.id, f, DecodeString(u.key).val),
                                r, NoRnd).resp

----------------------------------------------------------------------------
(* The order of the client's requests *)

\* C14: uploadFileInChunks sends the chunks in ascending index 0, 1, ...,
\* each only after every earlier request was answered with status 200 (so at
\* most one is in flight); it sends upload_complete only after all
\* chunkCount chunk requests were answered 200, and after a chunk request
\* that failed (another status, or a network error) it sends nothing more;
\* chunkCount is the least count of chunks of CHUNK_SIZE that hold the
\* file, so a file of zero bytes sends no chunk and completes with
\* chunkCount 0.
C14_ClientOrdering ==
    /\ [](LET n == chunkCount(cfile.size)
          IN  /\ n * CHUNK_SIZE >= cfile.size
              /\ n > 0 => (n - 1) * CHUNK_SIZE < cfile.size
              /\ Len(csent) <= n + 1
              /\ \A i \in 1..Len(csent) :
                    /\ csent[i].path = IF i <= n THEN "/upload_chunk" ELSE "/upload_complete"
                    /\ csent[i].chunkIndex = i - 1
                    /\ i < Len(csent) => csent[i].status = 200
              /\ Cardinality({i \in 1..Len(csent) : csent[i].status = -1}) <= 1
              /\ (cfile.size = 0 /\ csent # <<>>) =>
                     /\ csent[1].path = "/upload_complete"
                     /\ csent[1].chunkIndex = 0)
    /\ [][(csent # <<>> /\ csent[Len(csent)].status \notin {-1, 200}) => csent' = csent]_vars

\* Every chunk of a file of two chunks, the second a partial one, was
\* answered 200 and upload_complete has been sent.
C14_Witness ==
    /\ cfile.size = CHUNK_SIZE + 1
    /\ Len(csent) = 3
    /\ csent[1].status = 200
    /\ csent[2].status = 200
    /\ csent[3].path = "/upload_complete"
    /\ csent[3].chunkIndex = 2

====
